---- MODULE Spec2Model ----
(***************************************************************************)
(* Model of the criteria scorer of src/lib/utils.ts: isValidCriterion and  *)
(* evaluateCriteria, over JavaScript values.                               *)
(*                                                                         *)
(* A JavaScript number is an IEEE-754 binary floating-point value.  The    *)
(* model keeps the IEEE rules (round to nearest, ties to even, overflow to *)
(* Infinity, NaN propagation) and scales the format down: a finite number  *)
(* is an integer count of quanta of 2^-FracBits with at most Precision     *)
(* significant bits and magnitude at most MaxFinite.  (binary64 has        *)
(* Precision 53 and a quantum of 2^-1074.)  +0 and -0 are one value: the   *)
(* code never divides by a zero and === does not tell them apart.          *)
(***************************************************************************)
EXTENDS Integers, Sequences, FiniteSets

VARIABLES
  criteria, criterion, ret,   \* one caller of utils.ts: its arguments and what the call returned
  invocations, locals,        \* concurrent callers of utils.ts: their calls in progress and the calls' locals
  mounted, events, timers,    \* the page that is mounted, its user events so far, its awaiting handlers
  requirements, successThreshold, isRunAllLoading, overallResult,   \* state of App
  prompt, generatedResponse, successCriteria, totalScoreThreshold,  \* state of Home
  evaluationResult, isGenerating, isEvaluating, isGeneratingCriteria,
  db                          \* the database: how it was built and the rows of its tables

scorerVars == <<criteria, criterion, ret>>
callVars == <<invocations, locals>>
appVars == <<requirements, successThreshold, isRunAllLoading, overallResult>>
homeVars == <<prompt, generatedResponse, successCriteria, totalScoreThreshold,
              evaluationResult, isGenerating, isEvaluating, isGeneratingCriteria>>
pageVars == <<mounted, events, timers, appVars, homeVars>>
dbVars == <<db>>
vars == <<scorerVars, callVars, pageVars, dbVars>>

\* Longest criteria collection passed to evaluateCriteria.
MaxLen == 3
\* Significant bits of a number.
Precision == 3
\* Bits after the binary point: the quantum is 2^-FracBits.
FracBits == 2
\* Binary orders of magnitude above the quantum range before overflow.
ExpRange == 3
\* Requirements on the requirements page: the first of its four.
NumRequirements == 2
\* User events (edits, clicks on a run button) on a page.
MaxEvents == 3

----------------------------------------------------------------------------
(* JavaScript values *)

Fin(n) == [t |-> "number", s |-> "fin", v |-> n]
NaN == [t |-> "number", s |-> "nan", v |-> 0]
Infinity == [t |-> "number", s |-> "inf", v |-> 1]
NegInfinity == [t |-> "number", s |-> "inf", v |-> -1]
Undefined == [t |-> "undefined", s |-> "", v |-> 0]
Null == [t |-> "null", s |-> "", v |-> 0]
Str(x) == [t |-> "string", s |-> x, v |-> 0]
Bool(b) == [t |-> "boolean", s |-> "", v |-> IF b THEN 1 ELSE 0]

\* The number 1, 1/2 and 1/4 in quanta.
One == 2 ^ FracBits
Half == One \div 2
Quarter == One \div 4
\* Largest finite number, in quanta.
MaxFinite == (2 ^ Precision - 1) * 2 ^ ExpRange

IsNaN(x) == x.s = "nan"
IsFinite(x) == x.s = "fin"

----------------------------------------------------------------------------
(* IEEE-754 arithmetic: the exact result, rounded to nearest, ties to even *)

RECURSIVE ShiftOf(_, _)
\* Least k >= from with q < 2^(Precision + k): the bits q has too many.
ShiftOf(q, from) == IF q < 2 ^ (Precision + from) THEN from ELSE ShiftOf(q, from + 1)

\* The number nearest to num/den quanta (num >= 0, den > 0).
RoundRat(num, den) ==
  LET k  == ShiftOf(num \div den, 0)
      g  == den * 2 ^ k
      m  == num \div g
      r2 == 2 * (num - m * g)
      up == r2 > g \/ (r2 = g /\ m % 2 = 1)
      n  == (IF up THEN m + 1 ELSE m) * 2 ^ k
  IN  IF n > MaxFinite THEN Infinity ELSE Fin(n)

Neg(x) == IF x.s = "nan" THEN x ELSE [x EXCEPT !.v = -x.v]

Round(num, den) == IF num < 0 THEN Neg(RoundRat(-num, den)) ELSE RoundRat(num, den)

Sign(x) == IF x.v < 0 THEN -1 ELSE IF x.v > 0 THEN 1 ELSE 0

\* a + b
FAdd(a, b) ==
  IF IsNaN(a) \/ IsNaN(b) THEN NaN
  ELSE IF a.s = "inf" /\ b.s = "inf" THEN (IF a.v = b.v THEN a ELSE NaN)
  ELSE IF a.s = "inf" THEN a
  ELSE IF b.s = "inf" THEN b
  ELSE Round(a.v + b.v, 1)

\* a * b
FMul(a, b) ==
  IF IsNaN(a) \/ IsNaN(b) THEN NaN
  ELSE IF a.s = "inf" \/ b.s = "inf"
       THEN (IF Sign(a) * Sign(b) = 0 THEN NaN
             ELSE IF Sign(a) * Sign(b) > 0 THEN Infinity ELSE NegInfinity)
  ELSE Round(a.v * b.v, One)

\* a / b
FDiv(a, b) ==
  IF IsNaN(a) \/ IsNaN(b) THEN NaN
  ELSE IF a.s = "inf" /\ b.s = "inf" THEN NaN
  ELSE IF a.s = "inf" THEN (IF Sign(a) * Sign(b) < 0 THEN NegInfinity ELSE Infinity)
  ELSE IF b.s = "inf" THEN Fin(0)
  ELSE IF b.v = 0
       THEN (IF a.v = 0 THEN NaN ELSE IF a.v > 0 THEN Infinity ELSE NegInfinity)
  ELSE IF b.v < 0 THEN Round(-(a.v * One), -b.v)
  ELSE Round(a.v * One, b.v)

\* Position of a non-NaN number on the extended real line, in quanta.
Ord(x) == IF x.s = "inf" THEN x.v * (MaxFinite + 1) ELSE x.v

\* ToNumber of the strings the model passes in number fields.
StringToNumber(s) ==
  IF s = "" THEN Fin(0)
  ELSE IF s = "1" THEN Fin(One)
  ELSE IF s = "0.5" THEN Fin(Half)
  ELSE NaN

\* ToNumber, applied by >= and <= to an operand that is not a number.
ToNumber(x) ==
  IF x.t = "number" THEN x
  ELSE IF x.t = "undefined" THEN NaN
  ELSE IF x.t = "null" THEN Fin(0)
  ELSE IF x.t = "boolean" THEN Fin(x.v * One)
  ELSE StringToNumber(x.s)

\* a >= b and a <= b where b is a number: false when an operand is NaN.
GreaterEq(a, b) ==
  LET x == ToNumber(a) y == ToNumber(b)
  IN  ~IsNaN(x) /\ ~IsNaN(y) /\ Ord(x) >= Ord(y)

LessEq(a, b) ==
  LET x == ToNumber(a) y == ToNumber(b)
  IN  ~IsNaN(x) /\ ~IsNaN(y) /\ Ord(x) <= Ord(y)

\* a === b: no conversion, and NaN equals nothing.
StrictEq(a, b) == a.t = b.t /\ a = b /\ ~(a.t = "number" /\ IsNaN(a))

----------------------------------------------------------------------------
(* Criteria *)

\* An object with the three properties; an absent property reads undefined.
Criterion(type, score, weight) ==
  [ref |-> "object", type |-> type, score |-> score, weight |-> weight]

\* null or undefined passed where a criterion is expected.
NoObject(ref) ==
  [ref |-> ref, type |-> Undefined, score |-> Undefined, weight |-> Undefined]

\* What a call does: it returns a value or throws.
Return(val) == [kind |-> "return", val |-> val]
Throw(name) == [kind |-> "throw", val |-> Str(name)]

----------------------------------------------------------------------------
(* src/lib/utils.ts *)

\* SoftValid with the upper bound written score < 1.
SoftValid_ExclusiveBound(c) ==
  GreaterEq(c.score, Fin(0)) /\ LessEq(c.score, Fin(One)) /\ ~StrictEq(c.score, Fin(One))
  /\ GreaterEq(c.weight, Fin(0))

\* The "soft" branch: score >= 0 && score <= 1 && weight >= 0.
SoftValid(c) ==
  GreaterEq(c.score, Fin(0)) /\ LessEq(c.score, Fin(One)) /\ GreaterEq(c.weight, Fin(0))

\* HardValid with the score tested as a range, as for a soft criterion.
HardValid_Range(c) ==
  GreaterEq(c.score, Fin(0)) /\ LessEq(c.score, Fin(One)) /\ GreaterEq(c.weight, Fin(0))

\* The "hard" branch: (score === 0 || score === 1) && weight >= 0.
HardValid(c) ==
  (StrictEq(c.score, Fin(0)) \/ StrictEq(c.score, Fin(One))) /\ GreaterEq(c.weight, Fin(0))

\* The fall-through treating an unknown type as a soft criterion.
InvalidType_AsSoft(c) ==
  GreaterEq(c.score, Fin(0)) /\ LessEq(c.score, Fin(One)) /\ GreaterEq(c.weight, Fin(0))

\* The fall-through after the two branches: return false.
InvalidType(c) == FALSE

\* isValidCriterion without its last line: an unknown type returns undefined.
isValidCriterion_NoFallThrough(c) ==
  IF c.ref # "object" THEN Throw("TypeError")
  ELSE IF StrictEq(c.type, Str("soft"))
       THEN Return(Bool(GreaterEq(c.score, Fin(0)) /\ LessEq(c.score, Fin(One))
                        /\ GreaterEq(c.weight, Fin(0))))
  ELSE IF StrictEq(c.type, Str("hard"))
       THEN Return(Bool((StrictEq(c.score, Fin(0)) \/ StrictEq(c.score, Fin(One)))
                        /\ GreaterEq(c.weight, Fin(0))))
  ELSE Return(Undefined)

\* Reading criterion.type of null or undefined throws a TypeError.
isValidCriterion(c) ==
  IF c.ref # "object" THEN Throw("TypeError")
  ELSE IF StrictEq(c.type, Str("soft")) THEN Return(Bool(SoftValid(c)))
  ELSE IF StrictEq(c.type, Str("hard")) THEN Return(Bool(HardValid(c)))
  ELSE Return(Bool(InvalidType(c)))

RECURSIVE totalWeightReduce(_, _)
\* criteria.reduce((sum, c) => sum + c.weight, 0) over the first n elements.
totalWeightReduce(cs, n) ==
  IF n = 0 THEN Fin(0) ELSE FAdd(totalWeightReduce(cs, n - 1), cs[n].weight)

\* totalWeight reduced without its initial value 0: the first element is
\* taken as the accumulator and its weight is never added.
totalWeight_SkipsFirst(cs) ==
  LET RECURSIVE from2(_)
      from2(n) == IF n <= 1 THEN Fin(0) ELSE FAdd(from2(n - 1), cs[n].weight)
  IN  from2(Len(cs))

totalWeight(cs) == totalWeightReduce(cs, Len(cs))

RECURSIVE weightedSumReduce(_, _)
\* criteria.reduce((sum, c) => sum + c.score * c.weight, 0) over the first n elements.
weightedSumReduce(cs, n) ==
  IF n = 0 THEN Fin(0)
  ELSE FAdd(weightedSumReduce(cs, n - 1), FMul(cs[n].score, cs[n].weight))

\* weightedSum gated by the hard criteria: 0 as soon as one of them has score 0.
weightedSum_HardGate(cs) ==
  IF \E i \in 1..Len(cs) : cs[i].type = Str("hard") /\ cs[i].score = Fin(0)
  THEN Fin(0)
  ELSE weightedSumReduce(cs, Len(cs))

\* weightedSum adding the bare scores: sum + c.score.
weightedSum_Unweighted(cs) ==
  LET RECURSIVE scores(_)
      scores(n) == IF n = 0 THEN Fin(0) ELSE FAdd(scores(n - 1), cs[n].score)
  IN  scores(Len(cs))

weightedSum(cs) == weightedSumReduce(cs, Len(cs))

\* A zero total weight reported as the score 0.
ZeroWeightResult_Zero == Fin(0)

\* What evaluateCriteria returns when totalWeight === 0.
ZeroWeightResult == NaN

\* The quotient clamped to [0, 1].
Quotient_Clamped(ws, tw) ==
  LET q == FDiv(ws, tw)
  IN  IF IsNaN(q) THEN q
      ELSE IF Ord(q) > One THEN Fin(One)
      ELSE IF Ord(q) < 0 THEN Fin(0)
      ELSE q

\* The quotient evaluateCriteria returns otherwise.
Quotient(ws, tw) == FDiv(ws, tw)

\* evaluateCriteria keeping only the criteria isValidCriterion accepts.
evaluateCriteria_FiltersInvalid(cs) ==
  LET valid == SelectSeq(cs, LAMBDA c : isValidCriterion(c) = Return(Bool(TRUE)))
      tw    == totalWeightReduce(valid, Len(valid))
  IN  IF StrictEq(tw, Fin(0)) THEN NaN
      ELSE FDiv(weightedSumReduce(valid, Len(valid)), tw)

evaluateCriteria(cs) ==
  LET tw == totalWeight(cs)
  IN  IF StrictEq(tw, Fin(0)) THEN ZeroWeightResult
      ELSE Quotient(weightedSum(cs), tw)

----------------------------------------------------------------------------
(* The callers: inputs and calls *)

\* Criteria a caller passes to evaluateCriteria: hard criteria with scores
\* 0, 1 and weights 0, 1, 2, soft criteria with score 1/2 and those weights,
\* and the values the validator is there to reject or that the number type
\* does not exclude: a score of Infinity, a weight of Infinity, a weight
\* whose sums are rounded, a score above 1, a negative weight, an unknown
\* type.
Pool ==
  { Criterion(Str("hard"), Fin(s), Fin(One)) : s \in {0, One} }
  \cup { Criterion(Str("hard"), Fin(One), Fin(w)) : w \in {0, 2 * One} }
  \cup { Criterion(Str("soft"), Fin(Half), Fin(w)) : w \in {0, One, 2 * One} }
  \cup { Criterion(Str("soft"), Infinity, Fin(0)),
         Criterion(Str("soft"), Fin(Half), Infinity),
         Criterion(Str("soft"), Fin(One), Fin(One + Half + Quarter)),
         Criterion(Str("soft"), Fin(One + Half), Fin(One)),
         Criterion(Str("soft"), Fin(Half), Fin(-One)),
         Criterion(Str("invalid"), Fin(Half), Fin(One)) }

Collections == UNION { [1..n -> Pool] : n \in 0..MaxLen }

\* Values a caller may leave in a property of the argument of isValidCriterion.
TypeValues == {Str("soft"), Str("hard"), Str("invalid"), Str(""), Undefined, Null, Fin(One)}
NumberValues ==
  {NegInfinity, Fin(-One), Fin(-Quarter), Fin(0), Fin(Quarter), Fin(Half), Fin(One),
   Fin(One + Quarter), Fin(MaxFinite), Infinity, NaN}
FieldValues == NumberValues \cup {Undefined, Null, Str("1"), Str("0.5"), Str("abc"), Bool(TRUE)}

Arguments ==
  { Criterion(t, s, w) : t \in TypeValues, s \in FieldValues, w \in FieldValues }
  \cup {NoObject("null"), NoObject("undefined")}

NoCall == [fn |-> "none", kind |-> "none", val |-> Undefined]
Call(fn, outcome) == [fn |-> fn, kind |-> outcome.kind, val |-> outcome.val]

\* A caller aggregates its collection.
CallEvaluateCriteria ==
  /\ ret' = Call("evaluateCriteria", Return(evaluateCriteria(criteria)))
  /\ UNCHANGED <<criteria, criterion>>
  /\ UNCHANGED <<callVars, pageVars, dbVars>>

\* A caller validates the value it holds.
CallIsValidCriterion ==
  /\ ret' = Call("isValidCriterion", isValidCriterion(criterion))
  /\ UNCHANGED <<criteria, criterion>>
  /\ UNCHANGED <<callVars, pageVars, dbVars>>

\* No caller of the other kinds.
NoSingleCaller == criteria = <<>> /\ criterion = NoObject("undefined") /\ ret = NoCall
NoInvocations == invocations = <<>> /\ locals = <<>>
\* A page that is not mounted has no state.
NoApp ==
  /\ requirements = <<>> /\ successThreshold = Undefined
  /\ isRunAllLoading = FALSE /\ overallResult = Null
NoHome ==
  /\ prompt = "" /\ generatedResponse = "" /\ successCriteria = <<>>
  /\ totalScoreThreshold = Undefined /\ evaluationResult = Null
  /\ isGenerating = FALSE /\ isEvaluating = FALSE /\ isGeneratingCriteria = FALSE
NoPages == mounted = "none" /\ events = 0 /\ timers = <<>> /\ NoApp /\ NoHome
\* No database is connected.
NoDb == db = [ddl |-> "none"]

Init ==
  /\ criteria \in Collections
  /\ criterion = NoObject("undefined")
  /\ ret = NoCall
  /\ NoInvocations
  /\ NoPages
  /\ NoDb

Next == CallEvaluateCriteria

Spec == Init /\ [][Next]_vars

InitValidator ==
  /\ criteria = <<>>
  /\ criterion \in Arguments
  /\ ret = NoCall
  /\ NoInvocations
  /\ NoPages
  /\ NoDb

NextValidator == CallIsValidCriterion

SpecValidator == InitValidator /\ [][NextValidator]_vars

----------------------------------------------------------------------------
(* Concurrent callers: invocations of utils.ts taken step by step *)

\* Independent contexts (requests, UI events) that call into utils.ts.  A
\* JavaScript call runs to completion; the steps below may interleave
\* freely, which covers that schedule and every finer one.
Contexts == {"a", "b"}

\* Criteria and arguments the contexts build for themselves.
CallPool ==
  { Criterion(Str("soft"), Fin(Half), Fin(One)),
    Criterion(Str("hard"), Fin(One), Fin(2 * One)) }
CallCollections == UNION { [1..n -> CallPool] : n \in 0..MaxLen }
CallArguments ==
  { Criterion(Str("soft"), Fin(Half), Fin(One)),
    Criterion(Str("hard"), Fin(Half), Fin(One)),
    NoObject("null") }

\* An invocation before its first step.
Invocation(fn, cs, c) ==
  [fn |-> fn, criteria |-> cs, criterion |-> c, pc |-> "ready", i |-> 0,
   interleaved |-> FALSE, ret |-> NoCall]

\* The accumulator of a reduce and the two constants, before they are set.
NoLocals == [sum |-> Undefined, totalWeight |-> Undefined, weightedSum |-> Undefined]

\* One frame of locals shared by all invocations, as module-level variables are.
FrameOf_Shared(p) == "a"

\* The frame holding the locals of invocation p: its own.
FrameOf(p) == p

\* A reduce callback normalising the weight of the element it visits.
AfterCallback_Normalised(cs, i) == [cs EXCEPT ![i].weight = Fin(One)]

\* The collection after a reduce callback visited its i-th element: the
\* callbacks (sum, c) => sum + c.weight and (sum, c) => sum + c.score * c.weight
\* read c and write nothing.
AfterCallback(cs, i) == cs

\* A validator defaulting the type of the criterion it reads.
AfterValidation_Defaulted(c) == IF c.ref = "object" THEN [c EXCEPT !.type = Str("soft")] ELSE c

\* The argument after isValidCriterion read its type, score and weight.
AfterValidation(c) == c

InProgress(p) == invocations[p].pc \notin {"ready", "done"}

\* The call is entered; evaluateCriteria starts its first reduce at 0.
Enter(p) ==
  LET inv == invocations[p] IN
  /\ inv.pc = "ready"
  /\ invocations' =
       [invocations EXCEPT ![p].pc = IF inv.fn = "evaluateCriteria" THEN "totalWeight" ELSE "validate",
                           ![p].i = 1,
                           ![p].interleaved = \E q \in Contexts \ {p} : InProgress(q)]
  /\ locals' = IF inv.fn = "evaluateCriteria"
               THEN [locals EXCEPT ![FrameOf(p)].sum = Fin(0)]
               ELSE locals
  /\ UNCHANGED <<scorerVars, pageVars, dbVars>>

\* criteria.reduce((sum, c) => sum + c.weight, 0): one element, or the end.
TotalWeightStep(p) ==
  LET inv == invocations[p]
      f   == FrameOf(p)
  IN
  /\ inv.pc = "totalWeight"
  /\ IF inv.i <= Len(inv.criteria)
     THEN /\ locals' = [locals EXCEPT ![f].sum = FAdd(locals[f].sum, inv.criteria[inv.i].weight)]
          /\ invocations' = [invocations EXCEPT ![p].i = inv.i + 1,
                                                ![p].criteria = AfterCallback(inv.criteria, inv.i)]
     ELSE /\ locals' = [locals EXCEPT ![f].totalWeight = locals[f].sum]
          /\ invocations' = [invocations EXCEPT ![p].pc = "check"]
  /\ UNCHANGED <<scorerVars, pageVars, dbVars>>

\* if (totalWeight === 0) return NaN; otherwise the second reduce starts at 0.
CheckTotalWeight(p) ==
  LET f == FrameOf(p) IN
  /\ invocations[p].pc = "check"
  /\ IF StrictEq(locals[f].totalWeight, Fin(0))
     THEN /\ invocations' = [invocations EXCEPT ![p].pc = "done",
                                                ![p].ret = Call("evaluateCriteria", Return(ZeroWeightResult))]
          /\ UNCHANGED locals
     ELSE /\ invocations' = [invocations EXCEPT ![p].pc = "weightedSum", ![p].i = 1]
          /\ locals' = [locals EXCEPT ![f].sum = Fin(0)]
  /\ UNCHANGED <<scorerVars, pageVars, dbVars>>

\* criteria.reduce((sum, c) => sum + c.score * c.weight, 0): one element, or the end.
WeightedSumStep(p) ==
  LET inv == invocations[p]
      f   == FrameOf(p)
  IN
  /\ inv.pc = "weightedSum"
  /\ IF inv.i <= Len(inv.criteria)
     THEN /\ locals' = [locals EXCEPT ![f].sum =
                          FAdd(locals[f].sum,
                               FMul(inv.criteria[inv.i].score, inv.criteria[inv.i].weight))]
          /\ invocations' = [invocations EXCEPT ![p].i = inv.i + 1,
                                                ![p].criteria = AfterCallback(inv.criteria, inv.i)]
     ELSE /\ locals' = [locals EXCEPT ![f].weightedSum = locals[f].sum]
          /\ invocations' = [invocations EXCEPT ![p].pc = "divide"]
  /\ UNCHANGED <<scorerVars, pageVars, dbVars>>

\* return weightedSum / totalWeight
Divide(p) ==
  LET f == FrameOf(p) IN
  /\ invocations[p].pc = "divide"
  /\ invocations' =
       [invocations EXCEPT ![p].pc = "done",
                           ![p].ret = Call("evaluateCriteria",
                                           Return(Quotient(locals[f].weightedSum, locals[f].totalWeight)))]
  /\ UNCHANGED locals
  /\ UNCHANGED <<scorerVars, pageVars, dbVars>>

\* The body of isValidCriterion: it reads the criterion and returns.
Validate(p) ==
  LET inv == invocations[p] IN
  /\ inv.pc = "validate"
  /\ invocations' =
       [invocations EXCEPT ![p].pc = "done",
                           ![p].ret = Call("isValidCriterion", isValidCriterion(inv.criterion)),
                           ![p].criterion = AfterValidation(inv.criterion)]
  /\ UNCHANGED locals
  /\ UNCHANGED <<scorerVars, pageVars, dbVars>>

InitCalls ==
  /\ NoSingleCaller
  /\ invocations \in
       [Contexts ->
          { Invocation("evaluateCriteria", cs, NoObject("undefined")) : cs \in CallCollections }
          \cup { Invocation("isValidCriterion", <<>>, c) : c \in CallArguments }]
  /\ locals = [p \in Contexts |-> NoLocals]
  /\ NoPages
  /\ NoDb

NextCalls ==
  \E p \in Contexts :
    \/ Enter(p)
    \/ TotalWeightStep(p)
    \/ CheckTotalWeight(p)
    \/ WeightedSumStep(p)
    \/ Divide(p)
    \/ Validate(p)

SpecCalls == InitCalls /\ [][NextCalls]_vars

----------------------------------------------------------------------------
(* Numbers of the pages: literals, parsing, Math *)

\* The number a decimal literal num/den denotes: the nearest number.
Lit(num, den) == Round(num * One, den)

\* The literals of the two pages.
Num1 == Lit(1, 1)
Num2 == Lit(2, 1)
Num4 == Lit(4, 1)
Num6 == Lit(6, 1)
Num7 == Lit(7, 1)
Num8 == Lit(8, 1)
Num10 == Lit(10, 1)
Num0_2 == Lit(2, 10)
Num0_5 == Lit(5, 10)
Num0_8 == Lit(8, 10)
Num1_5 == Lit(15, 10)

\* a > b between numbers: false when an operand is NaN.
Greater(a, b) == ~IsNaN(a) /\ ~IsNaN(b) /\ Ord(a) > Ord(b)

\* Math.round and Math.floor of a finite number.
MathRound(x) == Fin(((2 * x.v + One) \div (2 * One)) * One)
MathFloor(x) == Fin((x.v \div One) * One)

\* Values Math.random() returns: numbers in [0, 1).  A draw is a position
\* in this list.
RandomValues == << Fin(0), Fin(Half) >>
Draws(n) == [1..n -> DOMAIN RandomValues]

RECURSIVE Chosen(_, _, _)
\* The first n outcomes under the draws `random`.
Chosen(choices, random, n) ==
  IF n = 0 THEN <<>>
  ELSE Append(Chosen(choices, random, n - 1), choices[n][random[n]])

\* Texts typed into the number inputs, and what the handlers parse them to.
Texts == {"", "0", "0.5", "1", "2"}
NumberOf(text) ==
  IF text = "0" THEN Fin(0)
  ELSE IF text = "0.5" THEN Num0_5
  ELSE IF text = "1" THEN Num1
  ELSE IF text = "2" THEN Num2
  ELSE NaN
\* Number.parseFloat(text): NaN for the empty text.
parseFloat(text) == NumberOf(text)
\* Number.parseInt(text): the integer part of the leading digits.
parseInt(text) == IF text = "" THEN NaN ELSE MathFloor(NumberOf(text))
\* Number(text): 0 for the empty text.
Number(text) == IF text = "" THEN Fin(0) ELSE NumberOf(text)

\* x ?? y
Coalesce(x, y) == IF x.t \in {"null", "undefined"} THEN y ELSE x

----------------------------------------------------------------------------
(* The requirements page: App of src/app/app/page.tsx *)

\* The requirement fields the run handlers read or write; text, model,
\* fitToContent and reasoning are not modelled.
Requirement(id, type, threshold) ==
  [id |-> id, weight |-> Num1, type |-> type, threshold |-> threshold,
   required |-> FALSE, loading |-> FALSE, result |-> "null", score |-> Null]

\* The page holds the first NumRequirements of the four initial requirements.
initialRequirements ==
  SubSeq(<< Requirement(1, "pass-fail", Fin(0)),
            Requirement(2, "subjective", Num0_5),
            Requirement(3, "pass-fail", Fin(0)),
            Requirement(4, "subjective", Num0_5) >>, 1, NumRequirements)

NoResult == [result |-> "null", score |-> Null]

\* What an awaiting handler captured when it was called.
NoCapture ==
  [requirements |-> <<>>, successThreshold |-> Undefined,
   successCriteria |-> <<>>, totalScoreThreshold |-> Undefined]
Timer(kind, id, captured) ==
  [kind |-> kind, id |-> id,
   requirements |-> captured.requirements, successThreshold |-> captured.successThreshold,
   successCriteria |-> captured.successCriteria,
   totalScoreThreshold |-> captured.totalScoreThreshold]

\* Shortest and longest delay of a handler's timeout, in milliseconds.
MinDelay(kind) ==
  IF kind = "handleRunAll" THEN 500
  ELSE IF kind = "runEvaluation" THEN 2000
  ELSE 1500
MaxDelay(kind) ==
  IF kind = "runEvaluation" THEN 2000 ELSE 1500

\* The k-th awaiting handler may resume: no handler called before it is
\* bound to resume earlier.
MayResume(k) ==
  /\ k \in 1..Len(timers)
  /\ \A j \in 1..(k - 1) : MinDelay(timers[k].kind) < MaxDelay(timers[j].kind)

Resumed(k) == SubSeq(timers, 1, k - 1) \o SubSeq(timers, k + 1, Len(timers))

\* A user event is possible: the page is mounted and the run is not over.
UserEvent(component) == mounted = component /\ events < MaxEvents

\* Math.round(Math.random()) === 1
PassFailPass(randomBit) == StrictEq(randomBit, Num1)

\* randomValue > req.threshold
SubjectivePass_Strict(randomValue, threshold) == Greater(randomValue, threshold)

\* randomValue >= req.threshold
SubjectivePass(randomValue, threshold) == GreaterEq(randomValue, threshold)

\* The same without loading: false in the returned object.
runSingleRequirement_KeepsLoading(req, random) ==
  LET randomBit == MathRound(random)
      newScore  == IF req.type = "pass-fail" THEN randomBit
                   ELSE IF req.type = "subjective" THEN random
                   ELSE Null
      pass      == IF req.type = "pass-fail" THEN PassFailPass(randomBit)
                   ELSE IF req.type = "subjective" THEN SubjectivePass(random, req.threshold)
                   ELSE FALSE
  IN  [req EXCEPT !.result = IF pass THEN "pass" ELSE "fail",
                  !.score = newScore]

\* runSingleRequirement(req) with the value Math.random() returned.
runSingleRequirement(req, random) ==
  LET randomBit == MathRound(random)
      newScore  == IF req.type = "pass-fail" THEN randomBit
                   ELSE IF req.type = "subjective" THEN random
                   ELSE Null
      pass      == IF req.type = "pass-fail" THEN PassFailPass(randomBit)
                   ELSE IF req.type = "subjective" THEN SubjectivePass(random, req.threshold)
                   ELSE FALSE
  IN  [req EXCEPT !.loading = FALSE,
                  !.result = IF pass THEN "pass" ELSE "fail",
                  !.score = newScore]

\* The index of the requirement with this id, 0 when there is none.
IndexOf(reqs, id) ==
  IF \E i \in 1..Len(reqs) : reqs[i].id = id
  THEN CHOOSE i \in 1..Len(reqs) : reqs[i].id = id /\ \A j \in 1..(i - 1) : reqs[j].id # id
  ELSE 0

\* prev.map((req) => (req.id === id ? { ...req, [field]: value } : req))
handleRequirementChange(id, field, value) ==
  /\ requirements' =
       [i \in 1..Len(requirements) |->
          IF requirements[i].id = id
          THEN [requirements[i] EXCEPT ![field] = value]
          ELSE requirements[i]]
  /\ requirements' # requirements
  /\ events' = events + 1
  /\ UNCHANGED <<successThreshold, isRunAllLoading, overallResult, timers>>

\* The inputs of a requirement row: Required?, Weight, Threshold.  (The Type
\* select is left alone: the page has a row of each type.)
ChangeRequired(id) ==
  /\ UserEvent("App")
  /\ \E checked \in BOOLEAN : handleRequirementChange(id, "required", checked)
  /\ UNCHANGED <<mounted, scorerVars, callVars, homeVars, dbVars>>

ChangeWeight(id) ==
  /\ UserEvent("App")
  /\ \E text \in {"", "0"} : handleRequirementChange(id, "weight", parseInt(text))
  /\ UNCHANGED <<mounted, scorerVars, callVars, homeVars, dbVars>>

ChangeThreshold(id) ==
  /\ UserEvent("App")
  /\ \E i \in 1..Len(requirements) :
        requirements[i].id = id /\ requirements[i].type = "subjective"
  /\ \E text \in {"0", "1"} : handleRequirementChange(id, "threshold", parseFloat(text))
  /\ UNCHANGED <<mounted, scorerVars, callVars, homeVars, dbVars>>

\* The Success Threshold input: setSuccessThreshold(Number.parseFloat(e.target.value))
ChangeSuccessThreshold ==
  /\ UserEvent("App")
  /\ \E text \in {"0"} : successThreshold' = parseFloat(text)
  /\ successThreshold' # successThreshold
  /\ events' = events + 1
  /\ UNCHANGED <<requirements, isRunAllLoading, overallResult, timers>>
  /\ UNCHANGED <<mounted, scorerVars, callVars, homeVars, dbVars>>

\* handleRunRequirement(id) up to its await: the row shows loading; the
\* handler keeps the requirements of the render it was created in.
handleRunRequirement(id) ==
  /\ UserEvent("App")
  /\ \E i \in 1..Len(requirements) : requirements[i].id = id /\ ~requirements[i].loading
  /\ requirements' =
       [i \in 1..Len(requirements) |->
          IF requirements[i].id = id
          THEN [requirements[i] EXCEPT !.loading = TRUE, !.result = "null", !.score = Null]
          ELSE requirements[i]]
  /\ timers' = Append(timers, Timer("handleRunRequirement", id,
                                    [NoCapture EXCEPT !.requirements = requirements]))
  /\ events' = events + 1
  /\ UNCHANGED <<successThreshold, isRunAllLoading, overallResult>>
  /\ UNCHANGED <<mounted, scorerVars, callVars, homeVars, dbVars>>

\* The same storing the captured list with the updated requirement in it.
RunRequirementDone_StoresCaptured(k) ==
  /\ MayResume(k)
  /\ timers[k].kind = "handleRunRequirement"
  /\ LET reqToRun == IndexOf(timers[k].requirements, timers[k].id) IN
       IF reqToRun # 0
       THEN \E random \in DOMAIN RandomValues :
              LET updatedReq == runSingleRequirement(timers[k].requirements[reqToRun],
                                                     RandomValues[random])
              IN  requirements' = [timers[k].requirements EXCEPT ![reqToRun] = updatedReq]
       ELSE UNCHANGED requirements
  /\ timers' = Resumed(k)
  /\ UNCHANGED <<successThreshold, isRunAllLoading, overallResult, events>>
  /\ UNCHANGED <<mounted, scorerVars, callVars, homeVars, dbVars>>

\* handleRunRequirement after its await: the captured requirement is run
\* and replaces the row with its id.
RunRequirementDone(k) ==
  /\ MayResume(k)
  /\ timers[k].kind = "handleRunRequirement"
  /\ LET reqToRun == IndexOf(timers[k].requirements, timers[k].id) IN
       IF reqToRun # 0
       THEN \E random \in DOMAIN RandomValues :
              LET updatedReq == runSingleRequirement(timers[k].requirements[reqToRun],
                                                     RandomValues[random])
              IN  requirements' =
                    [i \in 1..Len(requirements) |->
                       IF requirements[i].id = timers[k].id THEN updatedReq ELSE requirements[i]]
       ELSE UNCHANGED requirements
  /\ timers' = Resumed(k)
  /\ UNCHANGED <<successThreshold, isRunAllLoading, overallResult, events>>
  /\ UNCHANGED <<mounted, scorerVars, callVars, homeVars, dbVars>>

\* handleRunAll up to its await.
handleRunAll ==
  /\ UserEvent("App")
  /\ ~isRunAllLoading
  /\ isRunAllLoading' = TRUE
  /\ overallResult' = NoResult
  /\ requirements' =
       [i \in 1..Len(requirements) |->
          [requirements[i] EXCEPT !.loading = TRUE, !.result = "null", !.score = Null]]
  /\ timers' = Append(timers, Timer("handleRunAll", 0,
                                    [NoCapture EXCEPT !.requirements = requirements,
                                                      !.successThreshold = successThreshold]))
  /\ events' = events + 1
  /\ UNCHANGED successThreshold
  /\ UNCHANGED <<mounted, scorerVars, callVars, homeVars, dbVars>>

\* updatedRequirements.filter((r) => r.score !== null)
validReqs(updatedRequirements) ==
  SelectSeq(updatedRequirements, LAMBDA r : r.score # Null)

RECURSIVE RunForEach(_, _)
\* What runSingleRequirement(req) returns for each of the first m values of
\* Math.random().
RunForEach(req, m) ==
  IF m = 0 THEN <<>>
  ELSE Append(RunForEach(req, m - 1), runSingleRequirement(req, RandomValues[m]))

RECURSIVE RunChoices(_, _)
\* The same for each of the first n requirements.
RunChoices(reqs, n) ==
  IF n = 0 THEN <<>>
  ELSE Append(RunChoices(reqs, n - 1), RunForEach(reqs[n], Len(RandomValues)))

RECURSIVE ReqWeightReduce(_, _)
\* validReqs.reduce((sum, req) => sum + req.weight, 0)
ReqWeightReduce(reqs, n) ==
  IF n = 0 THEN Fin(0) ELSE FAdd(ReqWeightReduce(reqs, n - 1), reqs[n].weight)

RECURSIVE ReqScoreReduce(_, _)
\* The sum of the scores, the weights left out.
ReqScoreReduce(reqs, n) ==
  IF n = 0 THEN Fin(0)
  ELSE FAdd(ReqScoreReduce(reqs, n - 1), Coalesce(reqs[n].score, Fin(0)))

RECURSIVE ReqWeightedSumReduce(_, _)
\* validReqs.reduce((sum, req) => sum + (req.score ?? 0) * req.weight, 0)
ReqWeightedSumReduce(reqs, n) ==
  IF n = 0 THEN Fin(0)
  ELSE FAdd(ReqWeightedSumReduce(reqs, n - 1),
            FMul(Coalesce(reqs[n].score, Fin(0)), reqs[n].weight))

\* totalWeight > 0 ? weightedSum / totalWeight : 0
overallScore(updatedRequirements) ==
  LET valid       == validReqs(updatedRequirements)
      tw    == ReqWeightReduce(valid, Len(valid))
      ws    == ReqWeightedSumReduce(valid, Len(valid))
  IN  IF Greater(tw, Fin(0)) THEN FDiv(ws, tw) ELSE Fin(0)

\* overallScore >= successThreshold
overallPass(score, threshold) == GreaterEq(score, threshold)

\* handleRunAll after Promise.all: every captured requirement was run, the
\* overall score is computed from the outcomes and the state is replaced.
RunAllDone(k) ==
  /\ MayResume(k)
  /\ timers[k].kind = "handleRunAll"
     \* Each local is bound once, as the handler computes it once.
  /\ \E reqs \in {timers[k].requirements} :
     \E choices \in {RunChoices(reqs, Len(reqs))} :
     \E random \in Draws(Len(reqs)) :
     \E updatedRequirements \in {Chosen(choices, random, Len(reqs))} :
     \E score \in {overallScore(updatedRequirements)} :
       /\ requirements' = updatedRequirements
       /\ overallResult' =
            [result |-> IF overallPass(score, timers[k].successThreshold) THEN "pass" ELSE "fail",
             score |-> score]
  /\ isRunAllLoading' = FALSE
  /\ timers' = Resumed(k)
  /\ UNCHANGED <<successThreshold, events>>
  /\ UNCHANGED <<mounted, scorerVars, callVars, homeVars, dbVars>>

\* The page after its first render.
InitApp ==
  /\ requirements = initialRequirements
  /\ successThreshold = Num0_8
  /\ isRunAllLoading = FALSE
  /\ overallResult = NoResult

NextApp ==
  \/ \E id \in 1..NumRequirements :
       \/ ChangeRequired(id)
       \/ ChangeWeight(id)
       \/ ChangeThreshold(id)
       \/ handleRunRequirement(id)
  \/ ChangeSuccessThreshold
  \/ handleRunAll
  \/ \E k \in 1..Len(timers) : RunRequirementDone(k) \/ RunAllDone(k)

----------------------------------------------------------------------------
(* The evaluator page: Home of src/unnamed/part_003 *)

\* The criterion fields runEvaluation reads; ids are timestamps, taken to be
\* distinct, so a criterion is addressed by its position.
SuccessCriterion(type, weight, required, threshold) ==
  [type |-> type, weight |-> weight, required |-> required, threshold |-> threshold]

\* The criterion addCriterion appends.
newCriterion == SuccessCriterion("soft", Num1, FALSE, Num7)

\* The criteria generateCriteria installs.
generatedCriteria ==
  << SuccessCriterion("hard", Num2, TRUE, Undefined),
     SuccessCriterion("soft", Num1_5, TRUE, Num8),
     SuccessCriterion("soft", Num1, FALSE, Num7),
     SuccessCriterion("soft", Num0_5, FALSE, Num6) >>

NoEvaluation == [ref |-> "null", totalScore |-> Undefined, passed |-> FALSE, results |-> <<>>]

\* x || y for a number or undefined x: y when x is undefined, 0 or NaN.
OrElse(x, y) == IF x.t = "undefined" \/ x = Fin(0) \/ IsNaN(x) THEN y ELSE x

\* generateCriteria up to its await, and after it.
generateCriteria ==
  /\ UserEvent("Home")
  /\ prompt # "" /\ ~isGeneratingCriteria
  /\ isGeneratingCriteria' = TRUE
  /\ timers' = Append(timers, Timer("generateCriteria", 0, NoCapture))
  /\ events' = events + 1
  /\ UNCHANGED <<prompt, generatedResponse, isGenerating, successCriteria,
                 totalScoreThreshold, evaluationResult, isEvaluating>>
  /\ UNCHANGED <<mounted, scorerVars, callVars, appVars, dbVars>>

GenerateCriteriaDone(k) ==
  /\ MayResume(k)
  /\ timers[k].kind = "generateCriteria"
  /\ successCriteria' = generatedCriteria
  /\ isGeneratingCriteria' = FALSE
  /\ timers' = Resumed(k)
  /\ UNCHANGED <<prompt, generatedResponse, isGenerating,
                 totalScoreThreshold, evaluationResult, isEvaluating, events>>
  /\ UNCHANGED <<mounted, scorerVars, callVars, appVars, dbVars>>

\* An edit of the criteria list or of the threshold.
EditCriteria(criteria2) ==
  /\ UserEvent("Home")
  /\ successCriteria' = criteria2
  /\ successCriteria' # successCriteria
  /\ events' = events + 1
  /\ UNCHANGED <<prompt, generatedResponse, isGenerating, isGeneratingCriteria,
                 totalScoreThreshold, evaluationResult, isEvaluating, timers>>
  /\ UNCHANGED <<mounted, scorerVars, callVars, appVars, dbVars>>

addCriterion == EditCriteria(Append(successCriteria, newCriterion))

\* criteria.map((c) => (c.id === id ? { ...c, ...updates } : c))
updateCriterion(i, field, value) ==
  EditCriteria([successCriteria EXCEPT ![i] = [@ EXCEPT ![field] = value]])

UpdateWeight(i) == \E text \in {""} : updateCriterion(i, "weight", Number(text))
UpdateRequired(i) == \E checked \in BOOLEAN : updateCriterion(i, "required", checked)
UpdateThreshold(i) ==
  /\ successCriteria[i].type = "soft"
  /\ \E text \in {"0"} : updateCriterion(i, "threshold", Number(text))

\* The Total Score Threshold input: setTotalScoreThreshold(Number(e.target.value))
ChangeTotalScoreThreshold ==
  /\ UserEvent("Home")
  /\ \E text \in {"0"} : totalScoreThreshold' = Number(text)
  /\ totalScoreThreshold' # totalScoreThreshold
  /\ events' = events + 1
  /\ UNCHANGED <<prompt, generatedResponse, isGenerating, isGeneratingCriteria,
                 successCriteria, evaluationResult, isEvaluating, timers>>
  /\ UNCHANGED <<mounted, scorerVars, callVars, appVars, dbVars>>

\* runEvaluation up to its await: the handler keeps the criteria and the
\* threshold of the render it was created in.
runEvaluation ==
  /\ UserEvent("Home")
  /\ generatedResponse # "" /\ Len(successCriteria) > 0 /\ ~isEvaluating
  /\ isEvaluating' = TRUE
  /\ timers' = Append(timers, Timer("runEvaluation", 0,
                                    [NoCapture EXCEPT !.successCriteria = successCriteria,
                                                      !.totalScoreThreshold = totalScoreThreshold]))
  /\ events' = events + 1
  /\ UNCHANGED <<prompt, generatedResponse, isGenerating, isGeneratingCriteria,
                 successCriteria, totalScoreThreshold, evaluationResult>>
  /\ UNCHANGED <<mounted, scorerVars, callVars, appVars, dbVars>>

\* criterion.type === "hard" ? (Math.random() > 0.2 ? 10 : 0) : Math.floor(Math.random() * 4) + 7
SimulatedScore(c, random) ==
  IF c.type = "hard"
  THEN (IF Greater(random, Num0_2) THEN Num10 ELSE Fin(0))
  ELSE FAdd(MathFloor(FMul(random, Num4)), Num7)

\* criterion.type === "hard" ? score === 10 : score >= (criterion.threshold || 7)
LocalPass(c, score) ==
  IF c.type = "hard" THEN StrictEq(score, Num10)
  ELSE GreaterEq(score, OrElse(c.threshold, Num7))

\* One element of results: passed, score and contribution = (score / 10) * weight.
EvaluationOf(c, random) ==
  LET score == SimulatedScore(c, random)
  IN  [passed |-> LocalPass(c, score),
       score |-> score,
       contribution |-> FMul(FDiv(score, Num10), c.weight)]

RECURSIVE EvaluationForEach(_, _)
\* What the callback of successCriteria.map returns for criterion c, for each
\* of the first m values of Math.random().
EvaluationForEach(c, m) ==
  IF m = 0 THEN <<>>
  ELSE Append(EvaluationForEach(c, m - 1), EvaluationOf(c, RandomValues[m]))

RECURSIVE EvaluationChoices(_, _)
\* The same for each of the first n criteria.
EvaluationChoices(cs, n) ==
  IF n = 0 THEN <<>>
  ELSE Append(EvaluationChoices(cs, n - 1), EvaluationForEach(cs[n], Len(RandomValues)))

RECURSIVE CriteriaWeightReduce(_, _)
\* successCriteria.reduce((sum, c) => sum + c.weight, 0)
CriteriaWeightReduce(cs, n) ==
  IF n = 0 THEN Fin(0) ELSE FAdd(CriteriaWeightReduce(cs, n - 1), cs[n].weight)

RECURSIVE ContributionReduce(_, _)
\* results.reduce((sum, r) => sum + r.contribution, 0)
ContributionReduce(results, n) ==
  IF n = 0 THEN Fin(0) ELSE FAdd(ContributionReduce(results, n - 1), results[n].contribution)

\* (results.reduce(...) / totalWeight) * 10
totalScore(tw, results) ==
  FMul(FDiv(ContributionReduce(results, Len(results)), tw), Num10)

\* results.some((r, i) => successCriteria[i].required && !r.passed)
requiredFailed(cs, results) ==
  \E i \in 1..Len(results) : cs[i].required /\ ~results[i].passed

\* The verdict of the score alone.
passed_ScoreOnly(failed, score, threshold) == GreaterEq(score, threshold)

\* The verdict of a score that is not below the threshold.
passed_NotBelow(failed, score, threshold) ==
  ~failed /\ ~(~IsNaN(score) /\ ~IsNaN(threshold) /\ Ord(score) < Ord(threshold))

\* !requiredFailed && totalScore >= totalScoreThreshold
passed(failed, score, threshold) == ~failed /\ GreaterEq(score, threshold)

\* runEvaluation after its await: every captured criterion gets a simulated
\* score, and the verdict is set.
EvaluationDone(k) ==
  /\ MayResume(k)
  /\ timers[k].kind = "runEvaluation"
     \* Each local is bound once, as the handler computes it once.
  /\ \E cs \in {timers[k].successCriteria} :
     \E tw \in {CriteriaWeightReduce(cs, Len(cs))} :
     \E choices \in {EvaluationChoices(cs, Len(cs))} :
     \E random \in Draws(Len(cs)) :
     \E results \in {Chosen(choices, random, Len(cs))} :
     \E score \in {totalScore(tw, results)} :
       evaluationResult' =
         [ref |-> "object",
          totalScore |-> score,
          passed |-> passed(requiredFailed(cs, results), score, timers[k].totalScoreThreshold),
          results |-> results]
  /\ isEvaluating' = FALSE
  /\ timers' = Resumed(k)
  /\ UNCHANGED <<prompt, generatedResponse, isGenerating, isGeneratingCriteria,
                 successCriteria, totalScoreThreshold, events>>
  /\ UNCHANGED <<mounted, scorerVars, callVars, appVars, dbVars>>

\* The page once the user has typed a prompt and generateResponse has set
\* the simulated response: from then on the Run Evaluation button is shown
\* whenever there are criteria.
InitHome ==
  /\ prompt = "text"
  /\ generatedResponse = "text"
  /\ successCriteria = <<>>
  /\ totalScoreThreshold = Num7
  /\ evaluationResult = NoEvaluation
  /\ isGenerating = FALSE
  /\ isEvaluating = FALSE
  /\ isGeneratingCriteria = FALSE

NextHome ==
  \/ generateCriteria
  \/ addCriterion
  \/ \E i \in 1..Len(successCriteria) :
       \/ UpdateWeight(i)
       \/ UpdateRequired(i)
       \/ UpdateThreshold(i)
  \/ ChangeTotalScoreThreshold
  \/ runEvaluation
  \/ \E k \in 1..Len(timers) :
       GenerateCriteriaDone(k) \/ EvaluationDone(k)

----------------------------------------------------------------------------
(* The two pages *)

\* One of the two pages is mounted and rendered.
InitPages ==
  /\ NoSingleCaller /\ NoInvocations
  /\ NoDb
  /\ mounted \in {"App", "Home"}
  /\ events = 0
  /\ timers = <<>>
  /\ IF mounted = "App" THEN InitApp /\ NoHome ELSE InitHome /\ NoApp

NextPages == NextApp \/ NextHome

SpecPages == InitPages /\ [][NextPages]_vars

\* The timer of an awaiting handler of this kind fires and the handler leaves
\* the list of awaiting ones: in a behaviour of the pages this is the step
\* of that handler after its await.
Elapses(kind) ==
  \E k \in 1..Len(timers) :
     MayResume(k) /\ timers[k].kind = kind /\ timers' = Resumed(k)

\* Every simulated delay elapses: a handler that may resume does resume.
DelaysElapse ==
  /\ WF_timers(Elapses("handleRunRequirement"))
  /\ WF_timers(Elapses("handleRunAll"))
  /\ WF_timers(Elapses("generateCriteria"))
  /\ WF_timers(Elapses("runEvaluation"))

SpecPagesLive == SpecPages /\ DelaysElapse

----------------------------------------------------------------------------
(* The validator's contract *)

\* isValidCriterion was called on an object tagged `type`.
ValidatedTagged(type) ==
  ret.fn = "isValidCriterion" /\ criterion.ref = "object" /\ criterion.type = Str(type)

\* x is a number in the closed interval [lo, hi] quanta; hi may be "unbounded".
IsNumber(x) == x.t = "number"
AtLeast(x, lo) == IsNumber(x) /\ x.s # "nan" /\ (x.s = "inf" => x.v = 1) /\ (x.s = "fin" => x.v >= lo)
AtMost(x, hi) == IsNumber(x) /\ x.s # "nan" /\ (x.s = "inf" => x.v = -1) /\ (x.s = "fin" => x.v <= hi)

\* C1: for a criterion tagged "soft" whose score and weight are numbers,
\* isValidCriterion returns true if and only if 0 <= score <= 1 and
\* weight >= 0; the bounds 0 and 1 of the score and 0 of the weight are valid.
C1_SoftValidIffInRange ==
  (ValidatedTagged("soft") /\ IsNumber(criterion.score) /\ IsNumber(criterion.weight))
    => /\ ret.kind = "return"
       /\ ret.val \in {Bool(TRUE), Bool(FALSE)}
       /\ ret.val = Bool(TRUE) <=>
            /\ AtLeast(criterion.score, 0)
            /\ AtMost(criterion.score, One)
            /\ AtLeast(criterion.weight, 0)

\* A soft criterion on both boundaries, score 1 and weight 0, found valid.
C1_Witness ==
  /\ ValidatedTagged("soft")
  /\ criterion.score = Fin(One)
  /\ criterion.weight = Fin(0)
  /\ ret.val = Bool(TRUE)

\* C2: for a criterion tagged "hard" whose score and weight are numbers,
\* isValidCriterion returns true if and only if the score is exactly 0 or
\* exactly 1 and weight >= 0.
C2_HardValidIffBinary ==
  (ValidatedTagged("hard") /\ IsNumber(criterion.score) /\ IsNumber(criterion.weight))
    => /\ ret.kind = "return"
       /\ ret.val \in {Bool(TRUE), Bool(FALSE)}
       /\ ret.val = Bool(TRUE) <=>
            /\ criterion.score \in {Fin(0), Fin(One)}
            /\ AtLeast(criterion.weight, 0)

\* A hard criterion with score 1/2 and weight 1, found invalid.
C2_Witness ==
  /\ ValidatedTagged("hard")
  /\ criterion.score = Fin(Half)
  /\ criterion.weight = Fin(One)
  /\ ret.val = Bool(FALSE)

\* C3: for a criterion whose type tag is neither "soft" nor "hard",
\* isValidCriterion returns false whatever its score and weight.
C3_UnknownTypeInvalid ==
  (/\ ret.fn = "isValidCriterion"
   /\ criterion.ref = "object"
   /\ criterion.type \notin {Str("soft"), Str("hard")})
    => ret.kind = "return" /\ ret.val = Bool(FALSE)

\* A criterion tagged "invalid" with a score and a weight valid for both
\* variants, found invalid.
C3_Witness ==
  /\ ValidatedTagged("invalid")
  /\ criterion.score = Fin(One)
  /\ criterion.weight = Fin(One)
  /\ ret.val = Bool(FALSE)

\* C4 as claimed: isValidCriterion never raises and always returns a boolean,
\* for every input, a null or absent criterion included.
C4_NeverRaises ==
  ret.fn = "isValidCriterion" => ret.kind = "return" /\ ret.val.t = "boolean"

\* C4 as amended: isValidCriterion returns a boolean without raising for
\* every object, whatever its type, score and weight hold (a number, a
\* string, a boolean, null, or nothing), and raises a TypeError exactly when
\* the criterion itself is null or undefined.
C4_RaisesOnlyWithoutObject ==
  ret.fn = "isValidCriterion"
    => IF criterion.ref = "object"
       THEN ret.kind = "return" /\ ret.val \in {Bool(TRUE), Bool(FALSE)}
       ELSE ret.kind = "throw" /\ ret.val = Str("TypeError")

\* An object with no type, score or weight, found invalid without raising.
C4_Witness ==
  /\ ret.fn = "isValidCriterion"
  /\ criterion = Criterion(Undefined, Undefined, Undefined)
  /\ ret.kind = "return"
  /\ ret.val = Bool(FALSE)

----------------------------------------------------------------------------
(* The aggregator's contract *)

Evaluated == ret.fn = "evaluateCriteria" /\ ret.kind = "return"

RECURSIVE WeightsAdded(_, _)
\* The first n weights added in the collection's order.
WeightsAdded(cs, n) ==
  IF n = 0 THEN Fin(0) ELSE FAdd(WeightsAdded(cs, n - 1), cs[n].weight)

RECURSIVE ProductsAdded(_, _)
\* The first n products score * weight added in the collection's order.
ProductsAdded(cs, n) ==
  IF n = 0 THEN Fin(0)
  ELSE FAdd(ProductsAdded(cs, n - 1), FMul(cs[n].score, cs[n].weight))

\* The sum of all weights, and whether it is the number 0.
SumOfWeights(cs) == WeightsAdded(cs, Len(cs))
SumOfWeightsIsZero(cs) == SumOfWeights(cs) = Fin(0)

RECURSIVE ExactWeights(_, _)
\* The first n weights added as integers, in quanta.
ExactWeights(cs, n) == IF n = 0 THEN 0 ELSE ExactWeights(cs, n - 1) + cs[n].weight.v

RECURSIVE ExactProducts(_, _)
\* The first n products added as integers, in squared quanta.
ExactProducts(cs, n) ==
  IF n = 0 THEN 0 ELSE ExactProducts(cs, n - 1) + cs[n].score.v * cs[n].weight.v

\* The integer n, in quanta, is a number: it has at most Precision
\* significant bits and does not overflow.
Representable(n) ==
  LET a == IF n < 0 THEN -n ELSE n
  IN  a <= MaxFinite /\ a % (2 ^ ShiftOf(a, 0)) = 0

\* Every score and weight is finite, and no product and no partial sum of
\* the collection, taken in its order, is rounded: each is exactly a number.
NoRounding(cs) ==
  /\ \A i \in 1..Len(cs) : IsFinite(cs[i].score) /\ IsFinite(cs[i].weight)
  /\ \A i \in 1..Len(cs) :
        /\ (cs[i].score.v * cs[i].weight.v) % One = 0
        /\ Representable((cs[i].score.v * cs[i].weight.v) \div One)
        /\ Representable(ExactWeights(cs, i))
        /\ Representable(ExactProducts(cs, i) \div One)

\* The exact quotient of the two exact sums, rounded once.
ExactMean(cs) ==
  LET S == ExactProducts(cs, Len(cs))
      W == ExactWeights(cs, Len(cs))
  IN  IF W > 0 THEN Round(S, W) ELSE Round(-S, -W)

\* The collection without its i-th criterion.
Remove(cs, i) == SubSeq(cs, 1, i - 1) \o SubSeq(cs, i + 1, Len(cs))

\* The permutations of 1..n for each length n, and the collection reordered
\* by one.
Reorderings ==
  [n \in 0..MaxLen |-> { f \in [1..n -> 1..n] : \A i, j \in 1..n : f[i] = f[j] => i = j }]
Permuted(cs, f) == [i \in 1..Len(cs) |-> cs[f[i]]]

\* C5: evaluateCriteria returns NaN, not 0 and not an error, whenever the
\* collection is empty or its weights sum to 0, whatever the scores.
C5_NaNWhenNoWeight ==
  (ret.fn = "evaluateCriteria" /\ (Len(criteria) = 0 \/ SumOfWeightsIsZero(criteria)))
    => ret.kind = "return" /\ ret.val = NaN

\* Two criteria of weight 0 with scores 1 and 1/2, aggregated to NaN.
C5_Witness ==
  /\ Evaluated
  /\ criteria = << Criterion(Str("hard"), Fin(One), Fin(0)),
                   Criterion(Str("soft"), Fin(Half), Fin(0)) >>
  /\ ret.val = NaN

\* C6: when the total weight is not 0, evaluateCriteria returns the sum of
\* the products score * weight divided by the sum of the weights, unclamped
\* and with nothing else applied; when no sum is rounded on the way, that is
\* the exact weighted mean, rounded once.
C6_WeightedMean ==
  (Evaluated /\ ~SumOfWeightsIsZero(criteria))
    => /\ ret.val = FDiv(ProductsAdded(criteria, Len(criteria)), SumOfWeights(criteria))
       /\ NoRounding(criteria) => ret.val = ExactMean(criteria)

\* hard 1 weight 1, hard 0 weight 1, hard 1 weight 2 aggregated to 3/4.
C6_Witness ==
  /\ Evaluated
  /\ criteria = << Criterion(Str("hard"), Fin(One), Fin(One)),
                   Criterion(Str("hard"), Fin(0), Fin(One)),
                   Criterion(Str("hard"), Fin(One), Fin(2 * One)) >>
  /\ ret.val = Fin(3 * Quarter)

\* C7 as claimed: a criterion of weight 0, with any score, is excluded from
\* the aggregate: when the remaining total weight is not 0, the collection
\* without it has the same result.
C7_ZeroWeightExcluded ==
  Evaluated =>
    \A i \in 1..Len(criteria) :
      (criteria[i].weight = Fin(0) /\ ~SumOfWeightsIsZero(Remove(criteria, i)))
        => evaluateCriteria(Remove(criteria, i)) = ret.val

\* C7 as amended: a criterion of weight 0 with a finite score is excluded
\* from the aggregate: when the remaining total weight is not 0, the
\* collection without it has the same result.  A criterion of weight 0 whose
\* score is not finite makes the result NaN.
C7_FiniteZeroWeightExcluded ==
  Evaluated =>
    \A i \in 1..Len(criteria) :
      criteria[i].weight = Fin(0) =>
        IF IsFinite(criteria[i].score)
        THEN ~SumOfWeightsIsZero(Remove(criteria, i))
               => evaluateCriteria(Remove(criteria, i)) = ret.val
        ELSE ret.val = NaN

\* soft 1/2 weight 2, hard 1 weight 0, hard 1 weight 1 aggregated to 2/3,
\* the result of the two weighted criteria alone.
C7_Witness ==
  /\ Evaluated
  /\ criteria = << Criterion(Str("soft"), Fin(Half), Fin(2 * One)),
                   Criterion(Str("hard"), Fin(One), Fin(0)),
                   Criterion(Str("hard"), Fin(One), Fin(One)) >>
  /\ IsFinite(ret.val)
  /\ ret.val = FDiv(Fin(2 * One), Fin(3 * One))

\* C8: when every criterion satisfies isValidCriterion and the total weight
\* is greater than 0, the result of evaluateCriteria lies in [0, 1].
C8_ValidInUnitInterval ==
  (/\ Evaluated
   /\ \A i \in 1..Len(criteria) : isValidCriterion(criteria[i]) = Return(Bool(TRUE))
   /\ AtLeast(SumOfWeights(criteria), 1))
    => AtLeast(ret.val, 0) /\ AtMost(ret.val, One)

\* C9 as claimed: for every collection and every permutation of it, the
\* result of evaluateCriteria is the same, NaN included.
C9_OrderIndependent ==
  Evaluated =>
    \A f \in Reorderings[Len(criteria)] :
      evaluateCriteria(Permuted(criteria, f)) = ret.val

\* C9 as amended: a permutation leaves the result of evaluateCriteria, NaN
\* included, unchanged when the collection has at most two criteria, or when
\* no product and no partial sum is rounded in either order; otherwise the
\* sums depend on the order they are rounded in and the results may differ.
C9_OrderIndependentUnlessRounded ==
  (Evaluated /\ (Len(criteria) <= 2 \/ NoRounding(criteria))) =>
    \A f \in Reorderings[Len(criteria)] :
      (Len(criteria) <= 2 \/ NoRounding(Permuted(criteria, f)))
        => evaluateCriteria(Permuted(criteria, f)) = ret.val

\* Three different criteria whose sums are exact, aggregated to 1/2, the
\* result of each of their orders.
C9_Witness ==
  /\ Evaluated
  /\ criteria = << Criterion(Str("soft"), Fin(Half), Fin(2 * One)),
                   Criterion(Str("hard"), Fin(One), Fin(One)),
                   Criterion(Str("hard"), Fin(0), Fin(One)) >>
  /\ NoRounding(criteria)
  /\ ret.val = Fin(Half)

\* The criteria of the collection that isValidCriterion rejects.
Invalid(cs) == { i \in 1..Len(cs) : isValidCriterion(cs[i]) # Return(Bool(TRUE)) }

\* C12: evaluateCriteria does not filter: when the collection holds criteria
\* that isValidCriterion rejects, the result is still NaN for a zero total
\* weight and otherwise the sum of score * weight over all criteria, the
\* rejected ones included, divided by the sum of all weights.
C12_InvalidStillCounted ==
  (Evaluated /\ Invalid(criteria) # {})
    => ret.val = IF SumOfWeightsIsZero(criteria) THEN NaN
                 ELSE FDiv(ProductsAdded(criteria, Len(criteria)), SumOfWeights(criteria))

\* soft 3/2 weight 1 (rejected: score above 1) and hard 1 weight 1 aggregated
\* to 5/4; the accepted criterion alone would give 1.
C12_Witness ==
  /\ Evaluated
  /\ criteria = << Criterion(Str("soft"), Fin(One + Half), Fin(One)),
                   Criterion(Str("hard"), Fin(One), Fin(One)) >>
  /\ Invalid(criteria) = {1}
  /\ ret.val = Fin(One + Quarter)

\* The collection with the type tag of its i-th criterion replaced.
Retagged(cs, i, type) == [cs EXCEPT ![i].type = Str(type)]

\* C13: the result of evaluateCriteria does not depend on the type tags:
\* retagging any criterion "hard" or "soft", score and weight kept, leaves
\* the result unchanged, so a hard criterion with score 0 weighs on the
\* aggregate as a soft one with score 0 does and does not force it to 0.
C13_TypeTagIgnored ==
  Evaluated =>
    \A i \in 1..Len(criteria) : \A type \in {"hard", "soft"} :
      evaluateCriteria(Retagged(criteria, i, type)) = ret.val

\* A failed hard criterion of weight 1 and a passed one of weight 2
\* aggregated to 2/3, not to 0.
C13_Witness ==
  /\ Evaluated
  /\ criteria = << Criterion(Str("hard"), Fin(0), Fin(One)),
                   Criterion(Str("hard"), Fin(One), Fin(2 * One)) >>
  /\ ret.val # Fin(0)
  /\ ret.val = evaluateCriteria(Retagged(criteria, 1, "soft"))

----------------------------------------------------------------------------
(* The contract of concurrent callers *)

Returned(p) == invocations[p].pc = "done"

\* C11: neither evaluateCriteria nor isValidCriterion modifies what it is
\* given: no step of an invocation changes the type, score or weight of a
\* criterion or the length or order of a collection, its own or another
\* invocation's.
C11_ArgumentsUntouched ==
  [][\A p \in DOMAIN invocations :
        /\ invocations'[p].criteria = invocations[p].criteria
        /\ invocations'[p].criterion = invocations[p].criterion]_vars

\* evaluateCriteria returned for a collection of two different criteria and
\* isValidCriterion for an object.
C11_Witness ==
  /\ Returned("a") /\ Returned("b")
  /\ invocations["a"].fn = "evaluateCriteria"
  /\ invocations["a"].criteria = << Criterion(Str("hard"), Fin(One), Fin(2 * One)),
                                   Criterion(Str("soft"), Fin(Half), Fin(One)) >>
  /\ invocations["b"].fn = "isValidCriterion"
  /\ invocations["b"].criterion = Criterion(Str("hard"), Fin(Half), Fin(One))
  /\ invocations["b"].ret.val = Bool(FALSE)

\* What the call of invocation p returns when it runs alone.
Alone(p) ==
  IF invocations[p].fn = "evaluateCriteria"
  THEN Call("evaluateCriteria", Return(evaluateCriteria(invocations[p].criteria)))
  ELSE Call("isValidCriterion", isValidCriterion(invocations[p].criterion))

\* C19: invocations of evaluateCriteria and isValidCriterion on inputs of
\* their own, interleaved in any way, each return what the call returns when
\* it runs alone.
C19_InterleavingIrrelevant ==
  \A p \in DOMAIN invocations : Returned(p) => invocations[p].ret = Alone(p)

\* Two evaluations of different collections, the second entered while the
\* first was in progress, returned 2/3 and 1/2.
C19_Witness ==
  /\ Returned("a") /\ Returned("b")
  /\ invocations["b"].interleaved
  /\ invocations["a"].criteria = << Criterion(Str("hard"), Fin(One), Fin(2 * One)),
                                   Criterion(Str("soft"), Fin(Half), Fin(One)),
                                   Criterion(Str("soft"), Fin(Half), Fin(One)) >>
  /\ invocations["b"].criteria = << Criterion(Str("soft"), Fin(Half), Fin(One)) >>
  /\ invocations["a"].ret.val = Fin(3 * Quarter)
  /\ invocations["b"].ret.val = Fin(Half)

----------------------------------------------------------------------------
(* The decision gate of the evaluator page *)

\* The evaluation in flight: Run Evaluation is disabled while one is.
EvaluationTimer == CHOOSE k \in 1..Len(timers) : timers[k].kind = "runEvaluation"

\* The step in which runEvaluation resumes and stores its result.
EvaluationEnds == isEvaluating /\ ~isEvaluating'

\* C14: the verdict of an evaluation is passed exactly when no criterion
\* marked required failed its local test and the total score is at least the
\* total score threshold; a failed required criterion makes it false however
\* high the total score is.
C14_DecisionGate ==
  [][EvaluationEnds =>
       LET run     == timers[EvaluationTimer]
           outcome == evaluationResult'
       IN  outcome.passed <=>
             /\ \A i \in 1..Len(run.successCriteria) :
                   run.successCriteria[i].required => outcome.results[i].passed
             /\ GreaterEq(outcome.totalScore, run.totalScoreThreshold)]_vars

\* The generated criteria were evaluated: the required soft criterion scored
\* 7, under its threshold of 8, the total score reached the threshold of 7,
\* and the verdict is false.
C14_Witness ==
  /\ mounted = "Home"
  /\ evaluationResult.ref = "object"
  /\ successCriteria = generatedCriteria
  /\ Len(evaluationResult.results) = Len(successCriteria)
  /\ evaluationResult.results[1].passed
  /\ ~evaluationResult.results[2].passed
  /\ GreaterEq(evaluationResult.totalScore, totalScoreThreshold)
  /\ ~evaluationResult.passed

\* Values of the total score threshold input, its ends and its default.
ScoreThresholds == {Fin(0), Num7, Num10}

\* C15: an evaluation whose total score is NaN has the verdict false, and the
\* gate gives that score the verdict false under every threshold, 0 included,
\* also when no required criterion failed.
C15_NaNNeverPasses ==
  /\ mounted = "Home"
  /\ evaluationResult.ref = "object"
  /\ IsNaN(evaluationResult.totalScore)
  => /\ ~evaluationResult.passed
     /\ \A threshold \in ScoreThresholds :
          ~passed(FALSE, evaluationResult.totalScore, threshold)

\* A single criterion of weight 0 was evaluated: it passed locally, the total
\* score is 0/0 and the verdict is false.
C15_Witness ==
  /\ mounted = "Home"
  /\ evaluationResult.ref = "object"
  /\ Len(evaluationResult.results) = 1
  /\ evaluationResult.results[1].passed
  /\ IsNaN(evaluationResult.totalScore)
  /\ ~evaluationResult.passed

----------------------------------------------------------------------------
(* Local pass/fail *)

\* The step in which the handler awaiting as timers[k] resumes.
Resumes(k) == timers' = Resumed(k)

\* The local test of the contract on the requirements page, whose scale ends
\* at 1: a pass-fail requirement passes with the score 1, a subjective one
\* with a score of at least its own threshold.
RequirementPasses(req, score) ==
  IF req.type = "pass-fail" THEN StrictEq(score, Num1) ELSE GreaterEq(score, req.threshold)

\* The same on the evaluator page, whose scale ends at 10.
CriterionPasses(c, score) ==
  IF c.type = "hard" THEN StrictEq(score, Num10) ELSE GreaterEq(score, c.threshold)

\* C16: a run gives a hard criterion the local result pass exactly when its
\* score is the maximum of the scale, and a soft one exactly when its score
\* is at least the threshold the criterion had when the run started; and an
\* evaluation has a failed required criterion exactly when some criterion
\* marked required has the local result fail.
C16_LocalPassFail ==
  [][/\ \A k \in 1..Len(timers) :
          /\ Resumes(k) /\ timers[k].kind = "handleRunAll" =>
                \A i \in 1..Len(timers[k].requirements) :
                   requirements'[i].result = "pass" <=>
                     RequirementPasses(timers[k].requirements[i], requirements'[i].score)
          /\ Resumes(k) /\ timers[k].kind = "handleRunRequirement" =>
                \A i \in 1..Len(requirements') :
                   requirements'[i].id = timers[k].id =>
                     (requirements'[i].result = "pass" <=>
                        RequirementPasses(timers[k].requirements[i], requirements'[i].score))
          /\ Resumes(k) /\ timers[k].kind = "runEvaluation" =>
                LET cs      == timers[k].successCriteria
                    results == evaluationResult'.results
                IN  /\ \A i \in 1..Len(cs) :
                         results[i].passed <=> CriterionPasses(cs[i], results[i].score)
                    /\ requiredFailed(cs, results) <=>
                         \E i \in 1..Len(cs) :
                            cs[i].required /\ ~CriterionPasses(cs[i], results[i].score)]_vars

\* Run All ended with the pass-fail requirement failed at the score 0 and
\* the subjective one passed at a score equal to its threshold.
C16_Witness ==
  /\ mounted = "App"
  /\ overallResult.result # "null"
  /\ requirements[1].type = "pass-fail"
  /\ requirements[1].score = Fin(0) /\ requirements[1].result = "fail"
  /\ requirements[2].type = "subjective"
  /\ requirements[2].score = requirements[2].threshold
  /\ requirements[2].result = "pass"

----------------------------------------------------------------------------
(* The overall result of Run All *)

\* C17: when Run All ends with a requirement marked required at the result
\* "fail", the overall result is "fail", whatever the overall score and the
\* success threshold are.
C17_RunAllRequiredGate ==
  [][\A k \in 1..Len(timers) :
       Resumes(k) /\ timers[k].kind = "handleRunAll" =>
         ((\E i \in 1..Len(requirements') :
              requirements'[i].required /\ requirements'[i].result = "fail")
            => overallResult'.result = "fail")]_vars

\* The total weight of the requirements a Run All scored.
ScoredWeight(reqs) ==
  ReqWeightReduce(validReqs(reqs), Len(validReqs(reqs)))

\* C18: when Run All ends with no requirement contributing weight (none was
\* scored, or the weights of the scored ones sum to 0), the overall score is
\* the "no valid score" value NaN, not an ordinary 0, and the overall result
\* is not "pass", whatever the success threshold is.
C18_RunAllIndeterminate ==
  [][\A k \in 1..Len(timers) :
       Resumes(k) /\ timers[k].kind = "handleRunAll" =>
         (Len(validReqs(requirements')) = 0 \/ StrictEq(ScoredWeight(requirements'), Fin(0))
            => /\ IsNaN(overallResult'.score)
               /\ overallResult'.result # "pass")]_vars

----------------------------------------------------------------------------
(* The inline score computations and evaluateCriteria *)

\* The requirements Run All scored, as criteria: their scores and weights.
AsCriteria(reqs) ==
  [i \in 1..Len(reqs) |-> Criterion(Str("soft"), reqs[i].score, reqs[i].weight)]

\* The evaluated criteria on the scale of the scorer: score / 10 and weight.
AsUnitCriteria(cs, results) ==
  [i \in 1..Len(cs) |->
     Criterion(Str(cs[i].type), FDiv(results[i].score, Num10), cs[i].weight)]

\* C20: when the scored requirements have a total weight above 0, the overall
\* score Run All stores is evaluateCriteria of their scores and weights, and
\* when the criteria of an evaluation have a total weight above 0, the total
\* score it stores is 10 times evaluateCriteria of their scores divided by 10
\* and their weights.
C20_InlineAgreesWithScorer ==
  [][\A k \in 1..Len(timers) :
       /\ Resumes(k) /\ timers[k].kind = "handleRunAll" =>
            LET valid == validReqs(requirements')
            IN  Greater(totalWeight(AsCriteria(valid)), Fin(0)) =>
                  overallResult'.score = evaluateCriteria(AsCriteria(valid))
       /\ Resumes(k) /\ timers[k].kind = "runEvaluation" =>
            LET unit == AsUnitCriteria(timers[k].successCriteria, evaluationResult'.results)
            IN  Greater(totalWeight(unit), Fin(0)) =>
                  evaluationResult'.totalScore = FMul(Num10, evaluateCriteria(unit))]_vars

\* The four generated criteria, of weights 2, 1.5, 1 and 0.5, were evaluated
\* with the hard one failed at 0 and the others scored; the total score is 10
\* times what evaluateCriteria returns and is above 0.
C20_Witness ==
  /\ mounted = "Home"
  /\ evaluationResult.ref = "object"
  /\ successCriteria = generatedCriteria
  /\ Len(evaluationResult.results) = Len(successCriteria)
  /\ evaluationResult.results[1].score = Fin(0)
  /\ evaluationResult.results[2].score # evaluationResult.results[3].score
  /\ evaluationResult.totalScore =
       FMul(Num10, evaluateCriteria(AsUnitCriteria(successCriteria, evaluationResult.results)))
  /\ Greater(evaluationResult.totalScore, Fin(0))

----------------------------------------------------------------------------
(* Runs in flight on the requirements page *)

\* The awaiting handlers that run the requirement id: its single runs and
\* every Run All, which runs each requirement it captured.
RunsInFlight(id) ==
  {k \in 1..Len(timers) :
     \/ timers[k].kind = "handleRunRequirement" /\ timers[k].id = id
     \/ /\ timers[k].kind = "handleRunAll"
        /\ IndexOf(timers[k].requirements, id) # 0}

\* C21: at any time at most one run of a requirement is in flight, single
\* runs and Run All taken together.
C21_OneRunInFlight ==
  mounted = "App" =>
    \A i \in 1..Len(requirements) : Cardinality(RunsInFlight(requirements[i].id)) <= 1

\* The fields of a requirement the user edits.
EditedFields == {"weight", "threshold", "required"}

\* C22: when a run of a requirement completes, single or as part of Run All,
\* the requirement keeps the weight, threshold and required mark it had in
\* state just before, so an edit made while the run was in flight survives.
C22_EditsSurviveRuns ==
  [][\A k \in 1..Len(timers) :
       Resumes(k) /\ timers[k].kind \in {"handleRunRequirement", "handleRunAll"} =>
         \A i \in 1..Len(requirements) :
            k \in RunsInFlight(requirements[i].id) =>
              \A field \in EditedFields :
                 requirements'[i][field] = requirements[i][field]]_vars

\* C23: whenever an overall result is shown and no run is in flight, its
\* score is the weighted mean of the scores and weights the requirements have
\* in state (when their total weight is above 0) and its verdict is "pass"
\* exactly when that score is at least the success threshold in state.
C23_OverallResultCurrent ==
  mounted = "App" /\ overallResult.result # "null" /\ timers = <<>> =>
    LET valid == AsCriteria(validReqs(requirements))
    IN  /\ Greater(totalWeight(valid), Fin(0)) =>
             overallResult.score = evaluateCriteria(valid)
        /\ overallResult.result = "pass" <=>
             GreaterEq(overallResult.score, successThreshold)

\* Run All has ended: nothing of it is loading and every requirement and the
\* overall result carry a result.
RunAllCompleted ==
  /\ mounted = "App"
  /\ ~isRunAllLoading
  /\ \A i \in 1..Len(requirements) :
       /\ ~requirements[i].loading
       /\ requirements[i].result # "null"
       /\ requirements[i].score # Null
  /\ overallResult.result # "null"

\* C24: when every simulated delay elapses, a Run All that was started
\* completes: isRunAllLoading is false again, every requirement has loading
\* false and a result and a score, and there is an overall result; and as
\* long as isRunAllLoading is true there is no overall result.
C24_RunAllCompletes ==
  /\ (mounted = "App" /\ isRunAllLoading) ~> RunAllCompleted
  /\ [](mounted = "App" /\ isRunAllLoading => overallResult.result = "null")

\* Run All completed while a single run started before it is still awaiting.
C24_Witness ==
  /\ RunAllCompleted
  /\ Len(timers) = 1
  /\ timers[1].kind = "handleRunRequirement"

\* The step of handleRunRequirement(id) up to its await.
SingleRunStarts(id) ==
  /\ Len(timers') = Len(timers) + 1
  /\ timers'[Len(timers')].kind = "handleRunRequirement"
  /\ timers'[Len(timers')].id = id

\* The step of handleRunRequirement(id) after its await.
SingleRunEnds(id) ==
  \E k \in 1..Len(timers) :
     Resumes(k) /\ timers[k].kind = "handleRunRequirement" /\ timers[k].id = id

\* C25: the start and the completion of a single run of a requirement leave
\* every other requirement, the overall result, the success threshold and
\* isRunAllLoading as they were.
C25_SingleRunFrame ==
  [][\A i \in 1..Len(requirements) :
       SingleRunStarts(requirements[i].id) \/ SingleRunEnds(requirements[i].id) =>
         /\ Len(requirements') = Len(requirements)
         /\ \A j \in 1..Len(requirements) : j # i => requirements'[j] = requirements[j]
         /\ overallResult' = overallResult
         /\ successThreshold' = successThreshold
         /\ isRunAllLoading' = isRunAllLoading]_vars

\* A single run of requirement 1 has completed; requirement 2, which the
\* user marked required before or during that run, is still marked and has
\* no result of its own, and there is no overall result.
C25_Witness ==
  /\ mounted = "App"
  /\ timers = <<>>
  /\ events = 2
  /\ requirements[1].result # "null" /\ ~requirements[1].required
  /\ requirements[2].required /\ requirements[2].result = "null"
  /\ overallResult.result = "null"

----------------------------------------------------------------------------
(* The database of src/db/schema.ts and migrations/0000_sudden_the_hand.sql *)

\* NULL in a nullable column; identity columns count from 1.
NULL == 0
\* The largest id the identity column of canvas_versions hands out.
MaxVersions == 3

\* The tables that hang under a user's folders and canvases.
Tables ==
  { "users", "folders", "canvases", "canvasVersions", "prompts",
    "requirementGroups", "requirements", "evaluations", "responses",
    "files", "tools" }

\* table.column references references.id with ON DELETE onDelete.
ForeignKey(table, column, references, onDelete) ==
  [table |-> table, column |-> column, references |-> references, onDelete |-> onDelete]

\* The same foreign keys with canvas_versions.canvasId not cascading.
ForeignKeys_VersionsStay ==
  { ForeignKey("folders", "userId", "users", "cascade"),
    ForeignKey("canvases", "userId", "users", "cascade"),
    ForeignKey("canvases", "folderId", "folders", "cascade"),
    ForeignKey("canvasVersions", "canvasId", "canvases", "no action"),
    ForeignKey("canvasVersions", "parentVersionId", "canvasVersions", "cascade"),
    ForeignKey("prompts", "canvasVersionId", "canvasVersions", "cascade"),
    ForeignKey("requirementGroups", "canvasVersionId", "canvasVersions", "cascade"),
    ForeignKey("requirements", "requirementGroupId", "requirementGroups", "cascade"),
    ForeignKey("evaluations", "requirementId", "requirements", "cascade"),
    ForeignKey("responses", "canvasVersionId", "canvasVersions", "cascade"),
    ForeignKey("files", "promptId", "prompts", "set null"),
    ForeignKey("tools", "promptId", "prompts", "cascade") }

\* The same foreign keys with files.promptId cascading like tools.promptId.
ForeignKeys_FilesCascade ==
  { ForeignKey("folders", "userId", "users", "cascade"),
    ForeignKey("canvases", "userId", "users", "cascade"),
    ForeignKey("canvases", "folderId", "folders", "cascade"),
    ForeignKey("canvasVersions", "canvasId", "canvases", "cascade"),
    ForeignKey("canvasVersions", "parentVersionId", "canvasVersions", "cascade"),
    ForeignKey("prompts", "canvasVersionId", "canvasVersions", "cascade"),
    ForeignKey("requirementGroups", "canvasVersionId", "canvasVersions", "cascade"),
    ForeignKey("requirements", "requirementGroupId", "requirementGroups", "cascade"),
    ForeignKey("evaluations", "requirementId", "requirements", "cascade"),
    ForeignKey("responses", "canvasVersionId", "canvasVersions", "cascade"),
    ForeignKey("files", "promptId", "prompts", "cascade"),
    ForeignKey("tools", "promptId", "prompts", "cascade") }

\* The foreign keys between these tables, as schema.ts declares them and
\* the migration adds them.
ForeignKeys ==
  { ForeignKey("folders", "userId", "users", "cascade"),
    ForeignKey("canvases", "userId", "users", "cascade"),
    ForeignKey("canvases", "folderId", "folders", "cascade"),
    ForeignKey("canvasVersions", "canvasId", "canvases", "cascade"),
    ForeignKey("canvasVersions", "parentVersionId", "canvasVersions", "cascade"),
    ForeignKey("prompts", "canvasVersionId", "canvasVersions", "cascade"),
    ForeignKey("requirementGroups", "canvasVersionId", "canvasVersions", "cascade"),
    ForeignKey("requirements", "requirementGroupId", "requirementGroups", "cascade"),
    ForeignKey("evaluations", "requirementId", "requirements", "cascade"),
    ForeignKey("responses", "canvasVersionId", "canvasVersions", "cascade"),
    ForeignKey("files", "promptId", "prompts", "set null"),
    ForeignKey("tools", "promptId", "prompts", "cascade") }

\* The ids in a table.
Ids(table) == { r.id : r \in db[table] }

\* Row r holds, in the column of fk, the id of one of the rows (pairs of a
\* table and an id).
References(fk, r, rows) ==
  /\ r[fk.column] # NULL
  /\ <<fk.references, r[fk.column]>> \in rows

\* The rows whose foreign key with ON DELETE onDelete points into rows.
Referencing(rows, onDelete) ==
  UNION { { <<fk.table, r.id>> : r \in { q \in db[fk.table] : References(fk, q, rows) } } :
            fk \in { k \in ForeignKeys : k.onDelete = onDelete } }

\* Everything a DELETE of rows removes: the rows and, again and again, the
\* rows that reference a removed row ON DELETE cascade.
RECURSIVE Cascade(_)
Cascade(rows) ==
  LET more == rows \cup Referencing(rows, "cascade")
  IN  IF more = rows THEN rows ELSE Cascade(more)

\* A surviving row r of table once the rows gone are removed: a column that
\* referenced one of them ON DELETE set null is NULL.
SetNull(table, r, gone) ==
  [c \in DOMAIN r |->
     IF \E fk \in ForeignKeys :
          /\ fk.table = table /\ fk.column = c /\ fk.onDelete = "set null"
          /\ References(fk, r, gone)
     THEN NULL ELSE r[c]]

\* DELETE FROM table WHERE id = id.
Delete(table, id) ==
  /\ db.ddl # "none"
  /\ id \in Ids(table)
  /\ \E gone \in {Cascade({<<table, id>>})} :
       db' = [f \in DOMAIN db |->
                IF f \in Tables
                THEN { SetNull(f, r, gone) : r \in { q \in db[f] : <<f, q.id>> \notin gone } }
                ELSE db[f]]
  /\ UNCHANGED <<scorerVars, callVars, pageVars>>

\* uniqueIndex("uniq_canvas_draft").on(canvasId).where(isDraft = true)
uniq_canvas_draft(rows) ==
  \A a, b \in rows : a.isDraft /\ b.isDraft /\ a.canvasId = b.canvasId => a.id = b.id

\* parentVersionId ... .unique(): no two rows share a parent that is not NULL.
canvas_versions_parentVersionId_unique(rows) ==
  \A a, b \in rows :
     a.parentVersionId # NULL /\ a.parentVersionId = b.parentVersionId => a.id = b.id

\* The uniqueness the database enforces on canvas_versions holding rows.
\* schema.ts declares the index and the constraint; the CREATE TABLE of the
\* migration has neither, and the migration creates no index.
CanvasVersionsUnique(rows) ==
  db.ddl = "schema" =>
    uniq_canvas_draft(rows) /\ canvas_versions_parentVersionId_unique(rows)

\* The foreign keys of one canvas_versions row.
CanvasVersionsReferences(row) ==
  /\ row.canvasId \in Ids("canvases")
  /\ row.parentVersionId \in {NULL} \cup Ids("canvasVersions")

\* INSERT INTO canvas_versions (canvasId, parentVersionId, isDraft); the id
\* is generated always as identity.
InsertCanvasVersion(canvasId, parentVersionId, isDraft) ==
  /\ db.ddl # "none"
  /\ db.identity < MaxVersions
  /\ \E row \in {[id |-> db.identity + 1, canvasId |-> canvasId,
                  parentVersionId |-> parentVersionId, isDraft |-> isDraft]} :
       /\ CanvasVersionsReferences(row)
       /\ CanvasVersionsUnique(db.canvasVersions \cup {row})
       /\ db' = [db EXCEPT !.identity = @ + 1, !.canvasVersions = @ \cup {row}]
  /\ UNCHANGED <<scorerVars, callVars, pageVars>>

\* UPDATE canvas_versions SET isDraft = isDraft WHERE id = id.
UpdateCanvasVersion(id, isDraft) ==
  /\ db.ddl # "none"
  /\ \E r \in db.canvasVersions :
       /\ r.id = id
       /\ r.isDraft # isDraft
       /\ \E rows \in {(db.canvasVersions \ {r}) \cup {[r EXCEPT !.isDraft = isDraft]}} :
            /\ CanvasVersionsUnique(rows)
            /\ db' = [db EXCEPT !.canvasVersions = rows]
  /\ UNCHANGED <<scorerVars, callVars, pageVars>>

\* A database built from schema.ts (drizzle-kit push) or by running the
\* migration, holding two users' canvases: one in a folder with a published
\* version and the draft that follows it, one outside any folder and empty.
InitDb ==
  /\ NoSingleCaller /\ NoInvocations
  /\ NoPages
  /\ \E ddl \in {"schema", "migration"} :
       db = [ ddl |-> ddl,
              identity |-> 2,
              users |-> { [id |-> 1], [id |-> 2] },
              folders |-> { [id |-> 1, userId |-> 1] },
              canvases |-> { [id |-> 1, userId |-> 1, folderId |-> 1],
                             [id |-> 2, userId |-> 2, folderId |-> NULL] },
              canvasVersions |->
                { [id |-> 1, canvasId |-> 1, parentVersionId |-> NULL, isDraft |-> FALSE],
                  [id |-> 2, canvasId |-> 1, parentVersionId |-> 1, isDraft |-> TRUE] },
              prompts |-> { [id |-> 1, canvasVersionId |-> 1],
                            [id |-> 2, canvasVersionId |-> 2] },
              requirementGroups |-> { [id |-> 1, canvasVersionId |-> 1] },
              requirements |-> { [id |-> 1, requirementGroupId |-> 1] },
              evaluations |-> { [id |-> 1, requirementId |-> 1] },
              responses |-> { [id |-> 1, canvasVersionId |-> 1] },
              files |-> { [id |-> 1, promptId |-> 1], [id |-> 2, promptId |-> 2] },
              tools |-> { [id |-> 1, promptId |-> 1], [id |-> 2, promptId |-> 2] } ]

\* The tables the application deletes from by id; the rows under them go
\* with their owners.
Owners == { "users", "folders", "canvases", "canvasVersions", "prompts" }

NextDb ==
  \/ \E canvasId \in Ids("canvases"), parentVersionId \in {NULL} \cup Ids("canvasVersions"),
        isDraft \in BOOLEAN :
       InsertCanvasVersion(canvasId, parentVersionId, isDraft)
  \/ \E id \in Ids("canvasVersions"), isDraft \in BOOLEAN : UpdateCanvasVersion(id, isDraft)
  \/ \E table \in Owners : \E id \in Ids(table) : Delete(table, id)

SpecDb == InitDb /\ [][NextDb]_vars

----------------------------------------------------------------------------
(* Canvas versions: one draft per canvas, one child per version *)

\* The draft versions of a canvas.
Drafts(canvasId) == { v \in db.canvasVersions : v.canvasId = canvasId /\ v.isDraft }

\* The versions whose parent is the version id.
Children(id) == { v \in db.canvasVersions : v.parentVersionId = id }

\* C26: after any sequence of inserts, updates and deletes of canvas
\* versions, each canvas has at most one version with isDraft = true, and
\* each canvas version is the parent of at most one other version.
C26_OneDraftLinearVersions ==
  db.ddl # "none" =>
    /\ \A c \in db.canvases : Cardinality(Drafts(c.id)) <= 1
    /\ \A v \in db.canvasVersions : Cardinality(Children(v.id)) <= 1

----------------------------------------------------------------------------
(* Deleting a folder *)

\* The ids of the rows of table in the database d.
IdsIn(d, table) == { r.id : r \in d[table] }

\* The ids of the rows of table in d whose column holds one of the ids.
IdsUnder(d, table, column, ids) == { r.id : r \in { q \in d[table] : q[column] \in ids } }

\* The ids of the rows of table that are in d and not in e.
DeletedIds(d, e, table) == IdsIn(d, table) \ IdsIn(e, table)

\* Going from database d to database e, the folder id and everything under
\* it is deleted.
FolderGone(d, e, id) ==
  LET canvasIds == IdsUnder(d, "canvases", "folderId", {id})
      versionIds == IdsUnder(d, "canvasVersions", "canvasId", canvasIds)
      groupIds == IdsUnder(d, "requirementGroups", "canvasVersionId", versionIds)
      requirementIds == IdsUnder(d, "requirements", "requirementGroupId", groupIds)
  IN  /\ canvasIds \cap IdsIn(e, "canvases") = {}
      /\ versionIds \cap IdsIn(e, "canvasVersions") = {}
      /\ IdsUnder(d, "prompts", "canvasVersionId", versionIds) \cap IdsIn(e, "prompts") = {}
      /\ groupIds \cap IdsIn(e, "requirementGroups") = {}
      /\ requirementIds \cap IdsIn(e, "requirements") = {}
      /\ IdsUnder(d, "evaluations", "requirementId", requirementIds)
            \cap IdsIn(e, "evaluations") = {}
      /\ IdsUnder(d, "responses", "canvasVersionId", versionIds) \cap IdsIn(e, "responses") = {}

\* Going from d to e, no row of e references a folder, canvas or canvas
\* version that is deleted.
NoneReferDeleted(d, e) ==
  /\ IdsUnder(e, "canvases", "folderId", DeletedIds(d, e, "folders")) = {}
  /\ IdsUnder(e, "canvasVersions", "canvasId", DeletedIds(d, e, "canvases")) = {}
  /\ IdsUnder(e, "canvasVersions", "parentVersionId", DeletedIds(d, e, "canvasVersions")) = {}
  /\ \A table \in {"prompts", "requirementGroups", "responses"} :
       IdsUnder(e, table, "canvasVersionId", DeletedIds(d, e, "canvasVersions")) = {}

\* C27: deleting a folder deletes every canvas whose folderId refers to
\* it and every canvas version, prompt, requirement group, requirement,
\* evaluation and response under those canvases, and no surviving row
\* references a deleted folder, canvas or canvas version.
C27_FolderDeleteCascades ==
  [][ db.ddl # "none" =>
        \A id \in DeletedIds(db, db', "folders") :
           FolderGone(db, db', id) /\ NoneReferDeleted(db, db') ]_vars

\* The folder is deleted with its owner still there: its canvas, that
\* canvas's versions and what hangs under them are gone, the other user's
\* canvas is still there.
C27_Witness ==
  /\ db.ddl # "none"
  /\ Ids("users") = {1, 2}
  /\ db.folders = {}
  /\ Ids("canvases") = {2}
  /\ 1 \notin Ids("canvasVersions") /\ 2 \notin Ids("canvasVersions")
  /\ db.prompts = {} /\ db.requirementGroups = {} /\ db.requirements = {}
  /\ db.evaluations = {} /\ db.responses = {}

----------------------------------------------------------------------------
(* Deleting a prompt: its files and its tools *)

\* Going from database d to database e, the files of the prompt id are
\* kept, each with promptId NULL, and its tools are deleted.
FilesKeptToolsGone(d, e, id) ==
  /\ \A file \in d.files :
       file.promptId = id =>
         \E kept \in e.files : kept.id = file.id /\ kept.promptId = NULL
  /\ IdsUnder(e, "tools", "promptId", {id}) = {}
  /\ IdsUnder(d, "tools", "promptId", {id}) \cap IdsIn(e, "tools") = {}

\* C28: deleting a prompt, directly or through a cascade from its canvas
\* version, canvas, folder or user, deletes none of its file rows: each is
\* retained with promptId NULL, while the tool rows of the prompt are deleted.
C28_FilesOutliveTheirPrompt ==
  [][ db.ddl # "none" =>
        \A id \in DeletedIds(db, db', "prompts") : FilesKeptToolsGone(db, db', id) ]_vars

\* The user who owns both prompts' canvas is deleted, and the folder, the
\* canvas, the versions and the prompts with it: both files are there with
\* promptId NULL and no tool is left.
C28_Witness ==
  /\ db.ddl # "none"
  /\ Ids("users") = {2}
  /\ db.prompts = {}
  /\ db.files = { [id |-> 1, promptId |-> NULL], [id |-> 2, promptId |-> NULL] }
  /\ db.tools = {}

====
